---- MODULE Spec2Model ----
(***************************************************************************)
(* Model of maternal-companion/app.py: the rule-based triage               *)
(* (triage_assess, apply_triage) and the greedy route scheduler            *)
(* (greedy_assign_routes) with its distance primitive.                     *)
(*                                                                         *)
(* Encodings.                                                              *)
(*  - A coordinate pair is <<lat, lng>> in whole degrees; every point of   *)
(*    the model lies on the meridian lng = 0, where the geodesic distance  *)
(*    is MetresPerDeg * |lat difference|.  Distances are integers, in      *)
(*    metres; "km" of a route is in hundredths of a kilometre.             *)
(*  - Node ids are integers: DEPOT stands for the string "DEPOT", mother   *)
(*    ids are 1, 2, ...  (sorted() on ids is the integer order).  CHW ids  *)
(*    are 1, 2, ...; -1, -2, ... stand for "chwX1", "chwX2", ...           *)
(*  - max_visits_day is a number of CapScale-ths (3 is 1.5 with            *)
(*    CapScale = 2), so that int() has something to truncate.              *)
(*  - A cell of a mother row is Absent (the row has no such key), NaN (a   *)
(*    blank cell of the CSV, as pandas reads it) or Val(v).  Temperatures  *)
(*    are in tenths of a degree.  The flags of a result are kept as the    *)
(*    list triage_assess returns (apply_triage joins it with commas).      *)
(*    apply_triage treats the rows of a frame independently of each other  *)
(*    (the loop of lines 65-69, the elementwise np.where of line 74): the  *)
(*    model applies it to one row at a time.                               *)
(***************************************************************************)
EXTENDS Integers, Sequences, FiniteSets, TLC

VARIABLES
    pc,               \* position in greedy_assign_routes
    mothers_df,       \* the frame passed at line 101, days_postpartum included
    mothers_list,     \* line 110
    chws_df,          \* the CHW rows iterated at line 132
    capacity_per_chw, \* the keyword argument of line 101
    blocked,          \* lines 125-127
    mothers_sorted,   \* lines 119-122
    unserved,         \* line 115
    routes,           \* line 114
    k,                \* index of the CHW row the for loop of line 132 is at
    current,          \* line 134 / 157
    cap,              \* line 135 / 160
    seq,              \* line 136 / 155
    dist,             \* line 137 / 156
    plan,             \* the value returned at line 170
    row,              \* the row apply_triage is at (line 65)
    out               \* that row of the frame apply_triage returns (lines 70-76)

vars == <<pc, mothers_df, mothers_list, chws_df, capacity_per_chw, blocked, mothers_sorted,
          unserved, routes, k, current, cap, seq, dist, plan, row, out>>

sched == <<mothers_df, mothers_list, chws_df, capacity_per_chw, blocked, mothers_sorted,
           unserved, routes, k, current, cap, seq, dist, plan>>

(***************************************************************************)
(* Bounds of the model and constants of the program.                       *)
(***************************************************************************)
MaxMothers == 3
MaxCHWs == 2
MaxBoost == 1

DEPOT == 0
Penalty == 1000000000
Threshold == 100000000
MetresPerDeg == 110574
CapScale == 2
DefaultCapacity == 6
SliderMin == 3

BadLat == 91


(***************************************************************************)
(* Triage (lines 36-77).                                                   *)
(***************************************************************************)
(* the emergency subset without the feeding flag *)
EMERGENCY_FLAGS_clinical == {"PPH", "FEVER_HIGH", "PREECLAMPSIA", "SEPSIS"}

(* line 36 *)
EMERGENCY_FLAGS == {"PPH", "FEVER_HIGH", "PREECLAMPSIA", "SEPSIS", "NB_FEED_ISSUE"}

FeverTenths == 380

Absent == [kind |-> "absent"]
NaN == [kind |-> "nan"]
Val(v) == [kind |-> "val", v |-> v]

(* row.get(key, default) *)
Get(r, key, default) == IF r[key].kind = "absent" THEN default ELSE r[key]

(* str(x).lower() on the strings of the model; str(nan) is "nan" *)
Lower(t) ==
    CASE t \in {"heavy", "Heavy", "HEAVY"} -> "heavy"
      [] t \in {"no", "No", "NO"} -> "no"
      [] t \in {"yes", "Yes"} -> "yes"
      [] OTHER -> t

StrLower(x) == IF x.kind = "nan" THEN "nan" ELSE Lower(x.v)

(* float(x or 0) >= 38.0: nan is truthy and compares False with anything *)
AtLeastFever(x) ==
    IF x.kind = "nan" THEN FALSE
    ELSE (IF x.v = 0 THEN 0 ELSE x.v) >= FeverTenths

(* bool(x): nan is a non-zero float, hence True *)
Bool(x) == IF x.kind = "nan" THEN TRUE ELSE x.v

(* lines 40-53 *)
Flags(r) ==
    (IF StrLower(Get(r, "bleeding", Val("none"))) = "heavy" THEN <<"PPH">> ELSE <<>>)
    \o (IF AtLeastFever(Get(r, "temp_c", Val(0))) THEN <<"FEVER_HIGH">> ELSE <<>>)
    \o (IF Bool(Get(r, "headache", Val(FALSE))) /\ Bool(Get(r, "vision_blur", Val(FALSE)))
        THEN <<"PREECLAMPSIA">> ELSE <<>>)
    \o (IF StrLower(Get(r, "baby_feeding", Val("yes"))) = "no"
        THEN <<"NB_FEED_ISSUE">> ELSE <<>>)

(* the tier decision with NB_FEED_ISSUE taken for a non-emergency flag *)
TierFeedingNotEmergency(flags) ==
    IF \E i \in DOMAIN flags : flags[i] \in EMERGENCY_FLAGS \ {"NB_FEED_ISSUE"}
    THEN [risk |-> "EMERGENCY", flags |-> flags, sla_hours |-> 4]
    ELSE IF flags # <<>>
         THEN [risk |-> "PRIORITY", flags |-> flags, sla_hours |-> 24]
         ELSE [risk |-> "ROUTINE", flags |-> flags, sla_hours |-> 72]

(* lines 55-59 *)
Tier(flags) ==
    IF \E i \in DOMAIN flags : flags[i] \in EMERGENCY_FLAGS
    THEN [risk |-> "EMERGENCY", flags |-> flags, sla_hours |-> 4]
    ELSE IF flags # <<>>
         THEN [risk |-> "PRIORITY", flags |-> flags, sla_hours |-> 24]
         ELSE [risk |-> "ROUTINE", flags |-> flags, sla_hours |-> 72]

(* lines 39-59 *)
triage_assess(r) == Tier(Flags(r))

(* an override accepted only when it names a tier *)
priority_final_validated(priority, risk) ==
    IF priority \in {"EMERGENCY", "PRIORITY", "ROUTINE"} THEN priority ELSE risk

(* lines 74-76: np.where(priority.astype(str).eq("auto"), risk, priority) *)
priority_final(priority, risk) == IF priority = "auto" THEN risk ELSE priority

(* the cells of the rows of the model *)
BleedingCells == {Absent, NaN, Val("none"), Val("light"), Val("heavy"), Val("Heavy")}
TempCells == {Absent, NaN, Val(0), Val(365), Val(379), Val(380)}
FlagCells == {Absent, NaN, Val(FALSE), Val(TRUE)}
FeedingCells == {Absent, NaN, Val("yes"), Val("no"), Val("No")}
PriorityCells == {"auto", "AUTO", "EMERGENCY", "ROUTINE", "urgent"}

Rows ==
    [bleeding : BleedingCells, temp_c : TempCells, headache : FlagCells,
     vision_blur : FlagCells, baby_feeding : FeedingCells, priority : PriorityCells]

NoRow ==
    [bleeding |-> Absent, temp_c |-> Absent, headache |-> Absent,
     vision_blur |-> Absent, baby_feeding |-> Absent, priority |-> "auto"]

NoOut == [risk |-> "", flags |-> <<>>, sla_hours |-> 0, priority_final |-> ""]

(* lines 62-77, for the row r of the frame *)
apply_triage(r) ==
    /\ row' = r
    /\ LET t == triage_assess(r)
       IN out' = [risk |-> t.risk, flags |-> t.flags, sla_hours |-> t.sla_hours,
                  priority_final |-> priority_final(r.priority, t.risk)]
    /\ pc' = "triaged"
    /\ UNCHANGED sched

(* line 80, on any row of the model *)
ApplyTriage ==
    /\ pc = "idle"
    /\ \E r \in Rows : apply_triage(r)

(***************************************************************************)
(* Distance (lines 84-86).  geodesic() refuses a latitude outside          *)
(* [-90, 90] with an exception: GeometryFails says when the call raises,   *)
(* pairwise_distance is its value otherwise.  Every longitude of the model *)
(* is 0.                                                                   *)
(***************************************************************************)
Abs(x) == IF x < 0 THEN -x ELSE x

ValidPoint(p) == p[1] \in -90..90

GeometryFails(a, b) == ~ValidPoint(a) \/ ~ValidPoint(b)

pairwise_distance(a, b) == MetresPerDeg * Abs(a[1] - b[1])

(* round(dist, 2) of a distance in km, in hundredths of a km *)
Round2(metres) == (metres + 5) \div 10

(* int(chw.max_visits_day): truncation toward zero *)
IntOf(x) == IF x >= 0 THEN x \div CapScale ELSE -((-x) \div CapScale)

(***************************************************************************)
(* Priority rank and the sort of lines 118-122: sorted() is stable and the *)
(* second key component is the constant -1.                                *)
(***************************************************************************)
prio_rank(p) ==
    CASE p = "EMERGENCY" -> 0
      [] p = "PRIORITY" -> 1
      [] p = "ROUTINE" -> 2
      [] OTHER -> 3

OfRank(ms, r) ==
    LET Has(m) == prio_rank(m.priority_final) = r IN SelectSeq(ms, Has)

(* the input order, left as it is *)
SortByRankKeepsInput(ms) == ms

SortByRank(ms) == OfRank(ms, 0) \o OfRank(ms, 1) \o OfRank(ms, 2) \o OfRank(ms, 3)

(* tuple(sorted(e)) of lines 127 and 130 *)
SortedPair(e) == IF e[1] <= e[2] THEN <<e[1], e[2]>> ELSE <<e[2], e[1]>>

(* the lookup without the sort of line 130 *)
is_blocked_as_given(a, b) == <<a, b>> \in blocked

is_blocked(a, b) == SortedPair(<<a, b>>) \in blocked

(* sorted(list(unserved)) of line 170 *)
RECURSIVE SortedList(_)
SortedList(S) ==
    IF S = {} THEN <<>>
    ELSE LET lo == CHOOSE x \in S : \A y \in S : x <= y
         IN <<lo>> \o SortedList(S \ {lo})

(* unserved.discard(best["id"]) of line 158 *)
discardKeeps(pool, id) == pool

discard(pool, id) == pool \ {id}

(* lines 140 and 159 *)
local_unserved ==
    LET In(m) == m.id \in unserved IN SelectSeq(mothers_sorted, In)

(* the d of lines 146-149 for candidate m *)
PenalisedDistance(m) ==
    pairwise_distance(current[2], <<m.lat, m.lng>>)
      + (IF is_blocked(current[1], m.id) THEN Penalty ELSE 0)

(* the scan with the comparison of line 150 reversed *)
RECURSIVE ScanReversed(_, _, _, _)
ScanReversed(local, i, best, best_d) ==
    IF i > Len(local) THEN [best |-> best, best_d |-> best_d]
    ELSE LET d == PenalisedDistance(local[i])
         IN IF best = 0 \/ d > best_d
            THEN ScanReversed(local, i + 1, i, d)
            ELSE ScanReversed(local, i + 1, best, best_d)

(* the scan of lines 143-152: best is an index of local, 0 for None *)
RECURSIVE Scan(_, _, _, _)
Scan(local, i, best, best_d) ==
    IF i > Len(local) THEN [best |-> best, best_d |-> best_d]
    ELSE LET d == PenalisedDistance(local[i])
         IN IF best = 0 \/ d < best_d
            THEN Scan(local, i + 1, i, d)
            ELSE Scan(local, i + 1, best, best_d)

Nearest == Scan(local_unserved, 1, 0, 0)

(* line 146 raises for some candidate of the scan *)
ScanRaises ==
    \E i \in 1..Len(local_unserved) :
        GeometryFails(current[2], <<local_unserved[i].lat, local_unserved[i].lng>>)

(***************************************************************************)
(* The inputs of a call: the mothers frame,   CHW rows of line 132,    *)
(* blocked_edges (None, or a list of one pair in either order) and the     *)
(* capacity_per_chw argument.  The calls of the model are those of seven   *)
(* families, each varying one kind of input.                               *)
(***************************************************************************)
MotherRows(n, lats, prios, days, orders) ==
    { [i \in 1..n |-> [id |-> IF o = "asc" THEN i ELSE n + 1 - i,
                       lat |-> f[i][1], lng |-> 0, priority_final |-> f[i][2],
                       days_postpartum |-> f[i][3]]] :
        f \in [1..n -> lats \X prios \X days], o \in orders }

(* line 110: the columns kept of the frame, as records *)
to_records(df) ==
    [i \in DOMAIN df |-> [id |-> df[i].id, lat |-> df[i].lat, lng |-> df[i].lng,
                          priority_final |-> df[i].priority_final]]

ChwRows(c, bases, caps) ==
    { [i \in 1..c |-> [id |-> i, base_lat |-> f[i][1], base_lng |-> 0,
                       max_visits_day |-> f[i][2]]] :
        f \in [1..c -> bases \X caps] }

Nodes(n) == {DEPOT} \cup 1..n

EdgeLists(n) ==
    {{}} \cup { {e} : e \in {p \in Nodes(n) \X Nodes(n) : p[1] # p[2]} }

Family(lats, prios, days, orders, bases, caps, withEdges, overrides) ==
    [lats |-> lats, prios |-> prios, days |-> days, orders |-> orders, bases |-> bases,
     caps |-> caps, withEdges |-> withEdges, overrides |-> overrides]

(* valid coordinates, capacities 1 and 2, any blocked edge *)
GeneralCalls ==
    Family({1, 2, 3}, {"ROUTINE"}, {1}, {"asc"}, {0}, {2, 4}, TRUE, {DefaultCapacity})

(* two home bases, any blocked edge *)
DepotCalls ==
    Family({1, 3}, {"ROUTINE"}, {1}, {"asc"}, {0, 2}, {2, 4}, TRUE, {DefaultCapacity})

(* mixed priorities, among them a string that is no tier; ids in input order
   and against it *)
PriorityCalls ==
    Family({1, 2}, {"EMERGENCY", "ROUTINE", "urgent"}, {1}, {"asc", "desc"}, {0}, {2, 4},
           FALSE, {DefaultCapacity})

(* mixed days_postpartum *)
DaysCalls ==
    Family({1}, {"EMERGENCY", "ROUTINE"}, {1, 2}, {"asc"}, {0}, {2, 4}, FALSE,
           {DefaultCapacity})

(* a latitude outside [-90, 90] *)
GeometryCalls ==
    Family({1, BadLat}, {"ROUTINE"}, {1}, {"asc"}, {0}, {0, 4}, FALSE, {DefaultCapacity})

(* max_visits_day of -1, 1.5 and 2 *)
CapacityCalls ==
    Family({1, 2}, {"ROUTINE"}, {1}, {"asc"}, {0}, {-2, 3, 4}, FALSE, {DefaultCapacity})

(* a capacity_per_chw other than the default *)
OverrideCalls == Family({1, 2}, {"ROUTINE"}, {1}, {"asc"}, {0}, {2, 4}, FALSE, {1, 2})

Families ==
    {GeneralCalls, DepotCalls, PriorityCalls, DaysCalls, GeometryCalls, CapacityCalls,
     OverrideCalls}

NoPlan == [routes |-> <<>>, unserved |-> <<>>]

Init ==
    /\ pc = "idle"
    /\ mothers_df = <<>>
    /\ mothers_list = <<>>
    /\ chws_df = <<>>
    /\ capacity_per_chw = DefaultCapacity
    /\ blocked = {}
    /\ mothers_sorted = <<>>
    /\ unserved = {}
    /\ routes = <<>>
    /\ k = 1
    /\ current = <<DEPOT, <<0, 0>>>>
    /\ cap = 0
    /\ seq = <<>>
    /\ dist = 0
    /\ plan = NoPlan
    /\ row = NoRow
    /\ out = NoOut

(* lines 101-130: the call and its preparation *)
Call(ms, cs, edges, override) ==
    /\ pc = "idle"
    /\ mothers_df' = ms
    /\ mothers_list' = to_records(ms)
    /\ chws_df' = cs
    /\ capacity_per_chw' = override
    /\ routes' = <<>>
    /\ unserved' = {to_records(ms)[i].id : i \in DOMAIN ms}
    /\ mothers_sorted' = SortByRank(to_records(ms))
    /\ blocked' = {SortedPair(e) : e \in edges}
    /\ k' = 1
    /\ pc' = "for"
    /\ UNCHANGED <<current, cap, seq, dist, plan, row, out>>

(* a marker of its own for each CHW row after the first *)
depot_marker_per_chw(i) == IF i = 1 THEN DEPOT ELSE -i

(* lines 134 and 136: the node id every CHW row starts from *)
depot_marker(i) == DEPOT

(* lines 132-140: the for loop takes the next CHW row *)
BeginCHW ==
    /\ pc = "for"
    /\ k <= Len(chws_df)
    /\ current' = <<depot_marker(k), <<chws_df[k].base_lat, chws_df[k].base_lng>>>>
    /\ cap' = IntOf(chws_df[k].max_visits_day)
    /\ seq' = <<depot_marker(k)>>
    /\ dist' = 0
    /\ pc' = "while"
    /\ UNCHANGED <<mothers_df, mothers_list, chws_df, capacity_per_chw, blocked, mothers_sorted,
                   unserved, routes, k, plan, row, out>>

(* lines 141-160: one test of the while condition and, when it holds, one
   pass of the body; an exception of line 146 ends the call *)
WhileStep ==
    /\ pc = "while"
    /\ IF cap > 0 /\ local_unserved # <<>>
       THEN IF ScanRaises
            THEN /\ pc' = "error"
                 /\ UNCHANGED <<current, cap, seq, dist, unserved>>
            ELSE LET found == Nearest
                     best == local_unserved[found.best]
                     best_d == found.best_d
                 IN IF found.best = 0 \/ best_d > Threshold
                    THEN /\ pc' = "emit"
                         /\ UNCHANGED <<current, cap, seq, dist, unserved>>
                    ELSE /\ seq' = Append(seq, best.id)
                         /\ dist' = dist + best_d
                         /\ current' = <<best.id, <<best.lat, best.lng>>>>
                         /\ unserved' = discard(unserved, best.id)
                         /\ cap' = cap - 1
                         /\ pc' = "while"
       ELSE /\ pc' = "emit"
            /\ UNCHANGED <<current, cap, seq, dist, unserved>>
    /\ UNCHANGED <<mothers_df, mothers_list, chws_df, capacity_per_chw, blocked, mothers_sorted,
                   routes, k, plan, row, out>>

(* lines 162-168 *)
AppendRoute ==
    /\ pc = "emit"
    /\ routes' = Append(routes, [vehicle_id |-> chws_df[k].id,
                                 sequence |-> seq,
                                 km |-> Round2(dist),
                                 capacity |-> IntOf(chws_df[k].max_visits_day)])
    /\ k' = k + 1
    /\ pc' = "for"
    /\ UNCHANGED <<mothers_df, mothers_list, chws_df, capacity_per_chw, blocked, mothers_sorted,
                   unserved, current, cap, seq, dist, plan, row, out>>

(* line 170 *)
Return ==
    /\ pc = "for"
    /\ k > Len(chws_df)
    /\ plan' = [routes |-> routes, unserved |-> SortedList(unserved)]
    /\ pc' = "done"
    /\ UNCHANGED <<mothers_df, mothers_list, chws_df, capacity_per_chw, blocked, mothers_sorted,
                   unserved, routes, k, current, cap, seq, dist, row, out>>

(* a call with any inputs of the model *)
CallAny ==
    /\ pc = "idle"
    /\ \E fam \in Families, n \in 0..MaxMothers, c \in 0..MaxCHWs :
         \E ms \in MotherRows(n, fam.lats, fam.prios, fam.days, fam.orders),
            cs \in ChwRows(c, fam.bases, fam.caps),
            edges \in (IF fam.withEdges THEN EdgeLists(n) ELSE {{}}),
            override \in fam.overrides :
              Call(ms, cs, edges, override)

(* lines 294-308: the fleet of the what-if run *)
chws_sim(chws, vehicle_boost, capacity) ==
    IF vehicle_boost > 0
    THEN chws \o [j \in 1..vehicle_boost |->
                    [id |-> -j, base_lat |-> chws[1].base_lat,
                     base_lng |-> chws[1].base_lng,
                     max_visits_day |-> capacity * CapScale]]
    ELSE [i \in DOMAIN chws |-> [chws[i] EXCEPT !.max_visits_day = capacity * CapScale]]

(* lines 310-312; 0 stands for the "none" of the select boxes *)
blocked_list(block_from, block_to) ==
    IF block_from # 0 /\ block_to # 0 /\ block_from # block_to
    THEN {<<block_from, block_to>>} ELSE {}

(* lines 292-314: the "Plan Routes" button, on a loaded fleet of at least
   one CHW *)
ApplyBtn ==
    /\ pc = "idle"
    /\ \E n \in 0..MaxMothers, c \in 1..MaxCHWs, vehicle_boost \in 0..MaxBoost,
          capacity \in {SliderMin, SliderMin + 1} :
         \E ms \in MotherRows(n, {1, 2}, {"ROUTINE"}, {1}, {"asc"}),
            chws \in ChwRows(c, {0}, {2, 8}),
            block_from \in 0..n, block_to \in 0..n :
              Call(ms, chws_sim(chws, vehicle_boost, capacity),
                   blocked_list(block_from, block_to), capacity)

Next ==
    \/ ApplyTriage
    \/ CallAny
    \/ ApplyBtn
    \/ BeginCHW
    \/ WhileStep
    \/ AppendRoute
    \/ Return

Spec == Init /\ [][Next]_vars


(***************************************************************************)
(* Properties of the triage.                                               *)
(***************************************************************************)
(* C4: priority_final is the override verbatim whenever the override is not
   "auto", and the automatic risk tier when it is. *)
C4_OverridePrecedence ==
    pc = "triaged" =>
        out.priority_final = (IF row.priority # "auto" THEN row.priority ELSE out.risk)

(* an override that is no tier, on a row the triage rates EMERGENCY *)
C4_Witness ==
    /\ pc = "triaged"
    /\ row.priority = "urgent"
    /\ out.risk = "EMERGENCY"
    /\ out.priority_final = "urgent"

HasEmergencyFlag == \E i \in DOMAIN out.flags : out.flags[i] \in EMERGENCY_FLAGS

(* C5: the result is EMERGENCY with sla_hours 4 exactly when its flags hold
   a member of the emergency subset, PRIORITY with 24 exactly when they are
   non-empty without such a member, ROUTINE with 72 exactly when empty. *)
C5_TierDecision ==
    pc = "triaged" =>
        /\ (out.risk = "EMERGENCY" /\ out.sla_hours = 4) <=> HasEmergencyFlag
        /\ (out.risk = "PRIORITY" /\ out.sla_hours = 24) <=>
               (out.flags # <<>> /\ ~HasEmergencyFlag)
        /\ (out.risk = "ROUTINE" /\ out.sla_hours = 72) <=> out.flags = <<>>

(* a feeding issue alone *)
C5_Witness ==
    /\ pc = "triaged"
    /\ out.flags = <<"NB_FEED_ISSUE">>
    /\ out.risk = "EMERGENCY"
    /\ out.sla_hours = 4

IsVal(x) == x.kind = "val"

(* the flags whose rule holds of the row *)
RuledFlags ==
    {f \in {"PPH", "FEVER_HIGH", "PREECLAMPSIA", "NB_FEED_ISSUE"} :
        \/ f = "PPH" /\ IsVal(row.bleeding) /\ Lower(row.bleeding.v) = "heavy"
        \/ f = "FEVER_HIGH" /\ IsVal(row.temp_c) /\ row.temp_c.v >= FeverTenths
        \/ /\ f = "PREECLAMPSIA"
           /\ IsVal(row.headache) /\ row.headache.v
           /\ IsVal(row.vision_blur) /\ row.vision_blur.v
        \/ f = "NB_FEED_ISSUE" /\ IsVal(row.baby_feeding)
             /\ Lower(row.baby_feeding.v) = "no"}

(* C6 as claimed: the flags returned are exactly those whose rule holds, each
   once. *)
C6_FlagRules ==
    pc = "triaged" =>
        /\ {out.flags[i] : i \in DOMAIN out.flags} = RuledFlags
        /\ Len(out.flags) = Cardinality(RuledFlags)

Missing(x) == x.kind \in {"absent", "nan"}

Or(x, benign) == IF Missing(x) THEN Val(benign) ELSE x

(* the row with each missing signal replaced by its benign value *)
Benign(r) ==
    [bleeding |-> Or(r.bleeding, "none"), temp_c |-> Or(r.temp_c, 0),
     headache |-> Or(r.headache, FALSE), vision_blur |-> Or(r.vision_blur, FALSE),
     baby_feeding |-> Or(r.baby_feeding, "yes"), priority |-> r.priority]

(* C7 as claimed: the result for a row is the result for the row with its
   missing signals replaced by their benign values. *)
C7_MissingIsBenign ==
    pc = "triaged" =>
        LET t == triage_assess(Benign(row))
        IN out.risk = t.risk /\ out.flags = t.flags /\ out.sla_hours = t.sla_hours

(* C14: triage_assess never returns PRIORITY or sla_hours 24: every flag it
   produces is in the emergency subset, and the result is EMERGENCY with
   sla_hours 4 or ROUTINE with sla_hours 72. *)
C14_NeverPriority ==
    pc = "triaged" =>
        /\ out.risk # "PRIORITY" /\ out.sla_hours # 24
        /\ \A i \in DOMAIN out.flags : out.flags[i] \in EMERGENCY_FLAGS
        /\ \/ out.risk = "EMERGENCY" /\ out.sla_hours = 4
           \/ out.risk = "ROUTINE" /\ out.sla_hours = 72

(* a row that triggers all four rules *)
C14_Witness ==
    /\ pc = "triaged"
    /\ out.flags = <<"PPH", "FEVER_HIGH", "PREECLAMPSIA", "NB_FEED_ISSUE">>
    /\ out.risk = "EMERGENCY"

(***************************************************************************)
(* Properties of the scheduler.                                            *)
(***************************************************************************)
InputIds == {mothers_list[i].id : i \in DOMAIN mothers_list}

Visited(s) == {s[i] : i \in 2..Len(s)}

NoRepeat(s) == \A i, j \in 2..Len(s) : i # j => s[i] # s[j]

Range(s) == {s[i] : i \in DOMAIN s}

(* the sequences of the routes built so far: the emitted ones and the one
   under construction *)
RoutesSoFar ==
    [i \in DOMAIN routes |-> routes[i].sequence]
      \o (IF pc \in {"while", "emit", "error"} THEN <<seq>> ELSE <<>>)

Partitioned(ss, pool) ==
    /\ UNION {Visited(ss[i]) : i \in DOMAIN ss} \cup pool = InputIds
    /\ \A i \in DOMAIN ss : NoRepeat(ss[i]) /\ Visited(ss[i]) \cap pool = {}
    /\ \A i, j \in DOMAIN ss : i # j => Visited(ss[i]) \cap Visited(ss[j]) = {}

(* C1: at every step of greedy_assign_routes and in the returned plan, the
   mother ids visited in the routes built so far and the unserved pool
   partition the input id set: together they are the input ids, no id is in
   two routes or twice in one route, none is both visited and unserved. *)
C1_Conservation ==
    /\ pc \in {"for", "while", "emit", "error"} => Partitioned(RoutesSoFar, unserved)
    /\ pc = "done" =>
         /\ Partitioned([i \in DOMAIN plan.routes |-> plan.routes[i].sequence],
                        Range(plan.unserved))
         /\ Cardinality(Range(plan.unserved)) = Len(plan.unserved)

(* two routes that each visit a mother, and a mother left unserved *)
C1_Witness ==
    /\ pc = "done"
    /\ Len(plan.routes) >= 2
    /\ \A i \in 1..2 : Len(plan.routes[i].sequence) >= 2
    /\ plan.unserved # <<>>

(* C2 as claimed: every route of a returned plan visits at most the capacity
   it reports. *)
C2_CapacityBound ==
    pc = "done" =>
        \A i \in DOMAIN plan.routes :
            Len(plan.routes[i].sequence) - 1 <= plan.routes[i].capacity

(* C3 as claimed: called with a capacity override, every CHW starts with the
   override as its remaining capacity, every route visits at most the
   override number of mothers and reports the override as its capacity. *)
C3_OverrideApplies ==
    capacity_per_chw # DefaultCapacity =>
        /\ (pc = "while" /\ Len(seq) = 1) => cap = capacity_per_chw
        /\ pc = "done" =>
             \A i \in DOMAIN plan.routes :
                 /\ Len(plan.routes[i].sequence) - 1 <= capacity_per_chw
                 /\ plan.routes[i].capacity = capacity_per_chw

(* C8 as claimed: no plan is returned for a fleet with a negative or
   non-integer capacity. *)
C8_InvalidCapacityRejected ==
    pc = "done" =>
        \A i \in DOMAIN chws_df :
            /\ chws_df[i].max_visits_day >= 0
            /\ chws_df[i].max_visits_day % CapScale = 0

(* C9 as claimed: no plan is returned when a mother of the input has
   coordinates out of range. *)
C9_GeometryFailsWholeCall ==
    pc = "done" =>
        \A i \in DOMAIN mothers_list :
            ValidPoint(<<mothers_list[i].lat, mothers_list[i].lng>>)

(* the distance the claim compares: geodesic distance from the current node,
   plus the penalty when the edge (current node id, mother id) is blocked *)
ClaimedDistance(m) ==
    MetresPerDeg * Abs(current[2][1] - m.lat)
      + (IF <<current[1], m.id>> \in blocked \/ <<m.id, current[1]>> \in blocked
         THEN Penalty ELSE 0)

PoolRows == {mothers_list[i] : i \in {j \in DOMAIN mothers_list : mothers_list[j].id \in unserved}}

(* C10: a mother appended to a route has the least penalised distance among
   the mothers unserved at that moment; a CHW whose loop ends with capacity
   left does so with the pool empty or with that least distance above the
   threshold, and then nothing is raised and the pool is left as it is. *)
C10_GreedySelection ==
    [][ /\ (pc = "while" /\ seq' # seq) =>
             \E m \in PoolRows :
                 /\ seq' = Append(seq, m.id)
                 /\ \A o \in PoolRows : ClaimedDistance(m) <= ClaimedDistance(o)
        /\ (pc = "while" /\ pc' = "emit" /\ cap > 0) =>
             /\ \/ unserved = {}
                \/ \A o \in PoolRows : ClaimedDistance(o) > Threshold
             /\ unserved' = unserved
      ]_vars

(* a CHW that visited a mother and stopped with capacity left and mothers in
   the pool *)
C10_Witness == pc = "emit" /\ cap > 0 /\ Len(seq) >= 2 /\ unserved # {}

(* days_postpartum of the mother with this id, read from the frame passed in *)
DaysOf(id) ==
    LET i == CHOOSE j \in DOMAIN mothers_df : mothers_df[j].id = id
    IN mothers_df[i].days_postpartum

(* C11: the order the docstring states: mothers_sorted is ordered by priority
   rank (EMERGENCY, PRIORITY, ROUTINE) and, among mothers of the same
   priority, by days_postpartum descending. *)
C11_DocstringOrder ==
    \A i, j \in DOMAIN mothers_sorted :
        i < j =>
            LET ri == prio_rank(mothers_sorted[i].priority_final)
                rj == prio_rank(mothers_sorted[j].priority_final)
            IN \/ ri < rj
               \/ /\ ri = rj
                  /\ DaysOf(mothers_sorted[i].id) >= DaysOf(mothers_sorted[j].id)

(* position of a mother in the input frame *)
InputIndex(m) == CHOOSE j \in DOMAIN mothers_list : mothers_list[j].id = m.id

(* C12: priority is only a tie-break: the mother appended has the least
   penalised distance of the pool; among the mothers at that least distance
   she has the lowest priority rank, and among those of that rank she is the
   earliest of the input.  No mother strictly nearer is passed over, whatever
   the priorities. *)
C12_PriorityOnlyTieBreak ==
    [][ (pc = "while" /\ seq' # seq) =>
          \E m \in PoolRows :
              /\ seq' = Append(seq, m.id)
              /\ \A o \in PoolRows :
                    LET dm == ClaimedDistance(m)
                        do == ClaimedDistance(o)
                        rm == prio_rank(m.priority_final)
                        ro == prio_rank(o.priority_final)
                    IN \/ dm < do
                       \/ /\ dm = do
                          /\ \/ rm < ro
                             \/ rm = ro /\ InputIndex(m) <= InputIndex(o)
      ]_vars

(* the mother just appended came later in the input than a mother still
   unserved who was at the same distance and of a higher rank number, while a
   mother of a lower rank number, strictly farther, was passed over *)
C12_Witness ==
    /\ pc = "while"
    /\ Len(seq) = 2
    /\ blocked = {}
    /\ \E i, j, f \in DOMAIN mothers_list :
          /\ i < j
          /\ seq[2] = mothers_list[j].id
          /\ mothers_list[i].id \in unserved
          /\ mothers_list[f].id \in unserved
          /\ mothers_list[i].lat = mothers_list[j].lat
          /\ prio_rank(mothers_list[i].priority_final)
                > prio_rank(mothers_list[j].priority_final)
          /\ Abs(mothers_list[f].lat - chws_df[k].base_lat)
                > Abs(mothers_list[j].lat - chws_df[k].base_lat)
          /\ prio_rank(mothers_list[f].priority_final)
                < prio_rank(mothers_list[j].priority_final)

(* where a node of the route of CHW row i lies: the base of that CHW for the
   depot marker, the coordinates of the mother otherwise *)
NodePoint(i, node) ==
    IF node = DEPOT THEN <<chws_df[i].base_lat, chws_df[i].base_lng>>
    ELSE LET m == mothers_list[CHOOSE j \in DOMAIN mothers_list :
                                  mothers_list[j].id = node]
         IN <<m.lat, m.lng>>

(* the geodesic length of a sequence from its j-th node on, no penalty added *)
RECURSIVE PathMetres(_, _, _)
PathMetres(i, s, j) ==
    IF j >= Len(s) THEN 0
    ELSE MetresPerDeg * Abs(NodePoint(i, s[j])[1] - NodePoint(i, s[j + 1])[1])
           + PathMetres(i, s, j + 1)

Traverses(s) ==
    \E j \in 1..(Len(s) - 1) : <<s[j], s[j + 1]>> \in blocked \/ <<s[j + 1], s[j]>> \in blocked

(* C13: no blocked edge is traversed: no two consecutive nodes of a route,
   returned or under construction, form a blocked edge in either order; the
   distance accumulated is the unpenalised geodesic length of the sequence
   and the km of a returned route is that length rounded, below the penalty. *)
C13_NoBlockedEdgeTraversed ==
    /\ pc \in {"while", "emit"} =>
          /\ ~Traverses(seq)
          /\ dist = PathMetres(k, seq, 1)
    /\ pc = "done" =>
          \A i \in DOMAIN plan.routes :
              /\ ~Traverses(plan.routes[i].sequence)
              /\ plan.routes[i].km = Round2(PathMetres(i, plan.routes[i].sequence, 1))
              /\ plan.routes[i].km < Round2(Penalty)

(* a returned plan in which a route left a mother for a farther one because
   the edge to a nearer mother was blocked, the nearer one being served later *)
C13_Witness ==
    /\ pc = "done"
    /\ \E i, i2 \in DOMAIN plan.routes :
          LET s == plan.routes[i].sequence
              s2 == plan.routes[i2].sequence
          IN \E j \in 2..(Len(s) - 1), j2 \in 2..Len(s2) :
                /\ i2 > i \/ (i2 = i /\ j2 > j + 1)
                /\ SortedPair(<<s[j], s2[j2]>>) \in blocked
                /\ Abs(NodePoint(i, s2[j2])[1] - NodePoint(i, s[j])[1])
                      < Abs(NodePoint(i, s[j + 1])[1] - NodePoint(i, s[j])[1])

(* C15: the depot marker is shared: when the edge (DEPOT, m) is blocked, no
   route of any CHW, returned or under construction, has m as its first stop
   after the depot; m is served, if at all, as a second or later stop. *)
C15_SharedDepotMarker ==
    /\ \A i \in DOMAIN RoutesSoFar :
          Len(RoutesSoFar[i]) >= 2 => <<DEPOT, RoutesSoFar[i][2]>> \notin blocked
    /\ pc = "done" =>
          \A i \in DOMAIN plan.routes :
              LET s == plan.routes[i].sequence
              IN /\ s[1] = DEPOT
                 /\ Len(s) >= 2 => <<DEPOT, s[2]>> \notin blocked

(* a returned plan of two CHWs, the second starting from another base than
   the first, where a mother whose depot edge is blocked was nearer to the
   base than the first stop and is served as a later stop *)
C15_Witness ==
    /\ pc = "done"
    /\ Len(plan.routes) = 2
    /\ chws_df[1].base_lat # chws_df[2].base_lat
    /\ Len(plan.routes[2].sequence) >= 3
    /\ LET s == plan.routes[2].sequence
       IN /\ <<DEPOT, s[3]>> \in blocked
          /\ Abs(NodePoint(2, s[3])[1] - chws_df[2].base_lat)
                < Abs(NodePoint(2, s[2])[1] - chws_df[2].base_lat)

====
